---- MODULE Spec2Model ----
(***************************************************************************)
(* Model of cost_management_app.py: the SQLite store behind               *)
(* CostManagementDB (one database file shared by every browser session)   *)
(* and the Streamlit script run of CostManagementApp (construction:        *)
(* init_db and load_data; then main and one page).                        *)
(*                                                                         *)
(* Every db method opens its own connection (get_connection) and holds no  *)
(* lock between statements; sqlite3 in its default mode commits each DDL   *)
(* statement at once and opens a transaction only for INSERT.  A db        *)
(* method is therefore one step per SQL statement, and the steps of two    *)
(* sessions interleave.                                                    *)
(***************************************************************************)
EXTENDS Integers, Sequences, FiniteSets, TLC

VARIABLES
  db,         \* cost_management.db: each table, or Absent
  pc,         \* where each session's script run stands
  runs,       \* script runs started
  clicks,     \* "Add Column" clicks made
  i,          \* init_db: the CREATE TABLE statement it is at
  kind,       \* load_data: the spreadsheet it is at (index into Kinds)
  data,       \* load_data: the frame it read last (self.receipt_data,
              \* self.sales_data or self.beverage_recipe; once stored, none
              \* is read again)
  columns,    \* add_column_if_not_exists: the names PRAGMA table_info gave
  args,       \* add_column_if_not_exists: table, column, col_type
  msg,        \* what st.error / st.success showed
  err,        \* the exception that left the script run uncaught
  top_items,  \* show_overview_page: top_items
  old,        \* history: the table as the last to_sql call found it
  obs         \* history: what the last read made during another session's
              \* to_sql on the table saw, and those to_sql calls

vars == <<db, pc, runs, clicks, i, kind, data, columns, args, msg, err,
          top_items, old, obs>>

\* Bounds of the model.
MaxRuns == 2       \* script runs started, over all sessions
MaxClicks == 2     \* "Add Column" clicks, over all sessions

Sessions == {"s1", "s2"}

None == [none |-> TRUE]
Absent == [absent |-> TRUE]

\* ---------------------------------------------------------------- values
\* A cell of a data frame or of a table row.
Str(s) == [str |-> s]
Num(n) == [num |-> n]
Ts(d) == [ts |-> d]
NaT == [nat |-> TRUE]
Null == [null |-> TRUE]

IsTs(c) == "ts" \in DOMAIN c
IsNaT(c) == "nat" \in DOMAIN c
IsNum(c) == "num" \in DOMAIN c
IsNull(c) == "null" \in DOMAIN c
IsStr(c) == "str" \in DOMAIN c

Range(s) == {s[j] : j \in DOMAIN s}

\* pd.to_datetime(..., format='%d/%m/%Y', errors='coerce'): a cell that is
\* not a date in that format becomes NaT.
ToDatetime(c) ==
  IF c = Str("05/01/2024") THEN Ts(1)
  ELSE IF c = Str("01/02/2024") THEN Ts(2)
  ELSE NaT

\* The sqlite3 adapter of a datetime: its ISO text.
IsoText(d) == IF d = 1 THEN "2024-01-05 00:00:00" ELSE "2024-02-01 00:00:00"

\* What INSERT stores for a data frame cell: the sqlite3 adapters turn a
\* datetime into its text and NaT into NULL.
ToSql(c) ==
  IF IsTs(c) THEN Str(IsoText(c.ts))
  ELSE IF IsNaT(c) THEN Null
  ELSE c

\* Column position of a name in a data frame (0 when absent); pandas
\* compares column labels exactly.
ColIndex(names, name) ==
  IF \E j \in DOMAIN names : names[j] = name
  THEN CHOOSE j \in DOMAIN names : names[j] = name
  ELSE 0

\* ----------------------------------------------------------- the schema
Tables == {"receipts", "sales", "recipes", "inventory"}
InitOrder == <<"receipts", "sales", "recipes", "inventory">>

Col(n, t) == [name |-> n, type |-> t]

BaselineCols(t) ==
  IF t = "receipts" THEN
    <<Col("id", "INTEGER"), Col("date", "TEXT"), Col("store", "TEXT"),
      Col("item_group", "TEXT"), Col("item_code", "TEXT"),
      Col("item_name", "TEXT"), Col("uom", "TEXT"), Col("qty", "REAL"),
      Col("rate", "REAL"), Col("value", "REAL"), Col("cost_center", "TEXT"),
      Col("user", "TEXT"), Col("hotel", "TEXT"), Col("month", "TEXT"),
      Col("created_at", "TIMESTAMP")>>
  ELSE IF t = "sales" THEN
    <<Col("id", "INTEGER"), Col("date", "TEXT"), Col("item_code", "TEXT"),
      Col("item_name", "TEXT"), Col("quantity", "REAL"), Col("rate", "REAL"),
      Col("value", "REAL"), Col("discount", "REAL"),
      Col("created_at", "TIMESTAMP")>>
  ELSE IF t = "recipes" THEN
    <<Col("id", "INTEGER"), Col("item_code", "TEXT"), Col("item_name", "TEXT"),
      Col("selling_price", "REAL"), Col("cost_price", "REAL"),
      Col("cost_percentage", "REAL"), Col("created_at", "TIMESTAMP")>>
  ELSE
    <<Col("id", "INTEGER"), Col("item_code", "TEXT"), Col("item_name", "TEXT"),
      Col("opening_balance", "REAL"), Col("receipts", "REAL"),
      Col("issues", "REAL"), Col("closing_balance", "REAL"),
      Col("created_at", "TIMESTAMP")>>

Baseline(t) == [cols |-> BaselineCols(t), rows |-> <<>>]

\* SQLite compares identifiers without regard to case.
Lower(n) ==
  CASE n = "Date" -> "date"
    [] n = "Item Code" -> "item code"
    [] n = "Item Name" -> "item name"
    [] n = "Value" -> "value"
    [] n = "MONTH" -> "month"
    [] n = "Quantity" -> "quantity"
    [] n = "Selling Price" -> "selling price"
    [] n = "Cost Price" -> "cost price"
    [] n = "TEXT" -> "text"
    [] n = "REAL" -> "real"
    [] OTHER -> n

HasColumn(tab, n) == \E j \in DOMAIN tab.cols : Lower(tab.cols[j].name) = Lower(n)

ColNames(tab) == [j \in DOMAIN tab.cols |-> tab.cols[j].name]

\* A faulty variant: the table is dropped and created anew on every start.
CreateTableAlways(d, t) == [d EXCEPT ![t] = Baseline(t)]

\* CREATE TABLE IF NOT EXISTS t (...): nothing when t exists.
CreateTableIfNotExists(d, t) ==
  IF d[t] = Absent THEN [d EXCEPT ![t] = Baseline(t)] ELSE d

\* ------------------------------------------------------ the spreadsheets
\* What pd.read_excel can return for each of the three fixed file names;
\* the files are replaced between runs by whoever exports them.
ReceiptCols == <<"Date", "Item Code", "Item Name", "Value", "MONTH">>

RRow(d, code, name, v, m) == <<Str(d), Str(code), Str(name), Num(v), Str(m)>>

ReceiptFiles ==
  { [cols |-> ReceiptCols,
     rows |-> <<RRow("05/01/2024", "I2", "B", 80, "Jan"),
                RRow("01/02/2024", "I3", "C", 80, "Feb"),
                RRow("n/a", "I1", "A", 50, "Jan")>>],
    [cols |-> ReceiptCols,
     rows |-> <<RRow("05/01/2024", "I1", "A", 50, "Jan"),
                RRow("05/01/2024", "I1", "A", 30, "Jan"),
                RRow("01/02/2024", "I4", "D", 10, "Feb")>>] }

SalesFiles ==
  { [cols |-> <<"Item Code", "Item Name", "Quantity", "Value">>,
     rows |-> <<<<Str("I1"), Str("A"), Num(2), Num(100)>>,
                <<Null, Null, Null, Null>>>>] }

RecipeFiles ==
  { [cols |-> <<"Item Code", "Item Name", "Selling Price", "Cost Price">>,
     rows |-> <<<<Str("I1"), Str("A"), Num(100), Num(40)>>>>],
    [cols |-> <<"Item Code", "Item Name", "Selling Price">>,
     rows |-> <<<<Str("I1"), Str("A"), Num(100)>>>>] }

Kinds == <<"receipt", "sale", "recipe">>
TableOfKind(k) ==
  IF k = "receipt" THEN "receipts" ELSE IF k = "sale" THEN "sales" ELSE "recipes"
FilesOfKind(k) ==
  IF k = "receipt" THEN ReceiptFiles
  ELSE IF k = "sale" THEN SalesFiles ELSE RecipeFiles

\* self.receipt_data['Date'] = pd.to_datetime(self.receipt_data['Date'], ...)
ConvertDate(frame) ==
  LET j == ColIndex(frame.cols, "Date")
  IN [frame EXCEPT !.rows =
        [r \in DOMAIN frame.rows |->
           [frame.rows[r] EXCEPT ![j] = ToDatetime(frame.rows[r][j])]]]

\* frame.dropna(how='all'): drops the rows whose every cell is missing.
DropNaAll(frame) ==
  [frame EXCEPT !.rows =
     SelectSeq(frame.rows, LAMBDA r : \E c \in Range(r) : ~IsNull(c) /\ ~IsNaT(c))]

\* The frame load_data hands to process_and_store_<kind>_data.
Prepare(k, frame) ==
  IF k = "receipt" THEN ConvertDate(frame) ELSE DropNaAll(frame)

\* ------------------------------------------------------------- DataFrame.to_sql
\* The column type pandas declares for a frame column.
SqlType(frame, j) ==
  LET cells == {frame.rows[r][j] : r \in DOMAIN frame.rows}
  IN IF \E c \in cells : IsTs(c) \/ IsNaT(c) THEN "TIMESTAMP"
     ELSE IF cells # {} /\ \A c \in cells : IsNum(c) THEN "INTEGER"
     ELSE IF \E c \in cells : IsNum(c) THEN "REAL"
     ELSE "TEXT"

\* CREATE TABLE t (<the frame's columns>): the table to_sql creates, empty.
CreatedTable(frame) ==
  [cols |-> [j \in DOMAIN frame.cols |-> Col(frame.cols[j], SqlType(frame, j))],
   rows |-> <<>>]

\* INSERT INTO t (<the frame's columns>) VALUES ...: possible when the table
\* has every column of the frame.
CanInsert(tab, frame) == \A n \in Range(frame.cols) : HasColumn(tab, n)

InsertedRow(tab, frame, r) ==
  [j \in DOMAIN tab.cols |->
     IF \E f \in DOMAIN frame.cols : Lower(frame.cols[f]) = Lower(tab.cols[j].name)
     THEN ToSql(r[CHOOSE f \in DOMAIN frame.cols :
                    Lower(frame.cols[f]) = Lower(tab.cols[j].name)])
     ELSE Null]

InsertRows(tab, frame) ==
  [tab EXCEPT !.rows =
     tab.rows \o [r \in DOMAIN frame.rows |->
                   InsertedRow(tab, frame, frame.rows[r])]]

\* The table a to_sql(if_exists='replace') of the frame leaves when nothing
\* interferes.
StoredTable(frame) == InsertRows(CreatedTable(frame), frame)

\* pd.read_sql_query("SELECT * FROM t", conn) on an existing table.
ReadFrame(tab) == [cols |-> ColNames(tab), rows |-> tab.rows]

\* ------------------------------------------------- add_column_if_not_exists
\* f"ALTER TABLE {table} ADD COLUMN {column} {col_type}": SQLite reads the
\* first word after ADD COLUMN as the column's name and the rest as its
\* type, so with an empty column text the type word is the name.
AlterName(column, col_type) == IF column = "" THEN col_type ELSE column
AlterType(column, col_type) == IF column = "" THEN "" ELSE col_type

AddColumn(tab, column, col_type) ==
  [cols |-> Append(tab.cols, Col(AlterName(column, col_type),
                                 AlterType(column, col_type))),
   rows |-> [r \in DOMAIN tab.rows |-> Append(tab.rows[r], Null)]]

\* column not in columns: Python compares the strings exactly.
NotInColumns(column, cols) == \A j \in DOMAIN cols : cols[j] # column

\* PRAGMA table_info(table): the column names, none for a missing table.
TableInfo(tab) == IF tab = Absent THEN <<>> ELSE ColNames(tab)

\* The test and the ALTER TABLE, on the table as it is then, with the
\* names PRAGMA table_info gave earlier: the table it leaves and the error
\* it raises ("" for none).
AlterOutcome(tab, cols, column, col_type) ==
  IF ~NotInColumns(column, cols) THEN [tab |-> tab, raised |-> ""]
  ELSE IF tab = Absent THEN [tab |-> tab, raised |-> "no such table"]
  ELSE IF HasColumn(tab, AlterName(column, col_type))
  THEN [tab |-> tab, raised |-> "duplicate column name"]
  ELSE [tab |-> AddColumn(tab, column, col_type), raised |-> ""]

\* add_column_if_not_exists run with no other write between its statements.
AddColumnIfNotExists(tab, column, col_type) ==
  AlterOutcome(tab, TableInfo(tab), column, col_type)

\* ------------------------------------------------------------ top items
\* receipt_df.groupby('Item Name')['Value'].sum()
RECURSIVE SumValue(_, _, _, _)
SumValue(rows, nameAt, valueAt, g) ==
  IF rows = <<>> THEN 0
  ELSE (IF Head(rows)[nameAt] = Str(g) /\ IsNum(Head(rows)[valueAt])
        THEN Head(rows)[valueAt].num ELSE 0)
       + SumValue(Tail(rows), nameAt, valueAt, g)

GroupKeys(frame) ==
  LET j == ColIndex(frame.cols, "Item Name")
  IN {frame.rows[r][j].str : r \in {x \in DOMAIN frame.rows : IsStr(frame.rows[x][j])}}

GroupSum(frame, g) ==
  SumValue(frame.rows, ColIndex(frame.cols, "Item Name"),
           ColIndex(frame.cols, "Value"), g)

Head10 == 10

\* s.head(n)
HeadN(s, n) == IF Len(s) <= n THEN s ELSE SubSeq(s, 1, n)

\* Ascending order of the group keys (the order groupby leaves them in).
KeyLess(a, b) ==
  LET rank == [k \in {"A", "B", "C", "D"} |->
                 IF k = "A" THEN 1 ELSE IF k = "B" THEN 2
                 ELSE IF k = "C" THEN 3 ELSE 4]
  IN rank[a] < rank[b]

\* .sort_values(ascending=False) with the default kind='quicksort', which is
\* not a stable sort: every descending arrangement of the groups is a
\* possible result, whatever the order among equal sums.
SortedDescending(frame) ==
  LET G == GroupKeys(frame)
      n == Cardinality(G)
  IN {s \in [1..n -> G] :
        /\ \A a, b \in 1..n : a # b => s[a] # s[b]
        /\ \A a, b \in 1..n : a < b => GroupSum(frame, s[a]) >= GroupSum(frame, s[b])}

TopItems(frame) ==
  {HeadN([j \in DOMAIN s |-> [key |-> s[j], value |-> GroupSum(frame, s[j])]], Head10)
     : s \in SortedDescending(frame)}

\* The columns show_overview_page takes from the frame by label.
OverviewColumns == {"Value", "Item Code", "MONTH", "Item Name"}

\* ------------------------------------------------------------ the state
Init ==
  /\ db = [t \in Tables |-> Absent]
  /\ pc = [p \in Sessions |-> "idle"]
  /\ runs = 0
  /\ clicks = 0
  /\ i = [p \in Sessions |-> 0]
  /\ kind = [p \in Sessions |-> 0]
  /\ data = [p \in Sessions |-> None]
  /\ columns = [p \in Sessions |-> None]
  /\ args = [p \in Sessions |-> None]
  /\ msg = [p \in Sessions |-> None]
  /\ err = [p \in Sessions |-> None]
  /\ top_items = [p \in Sessions |-> None]
  /\ old = [p \in Sessions |-> None]
  /\ obs = [p \in Sessions |-> None]

ToSqlPcs == {"to_sql_drop", "to_sql_create", "to_sql_insert"}
LoadDataPcs == {"read_excel"} \cup ToSqlPcs
AddColumnPcs == {"add_alter"}

\* The table a session's open to_sql call writes (data[p] is the frame).
Target(p) == TableOfKind(Kinds[kind[p]])

\* An exception handled by an except clause: shown with st.error, and the
\* script goes on after the try statement.
Caught(p, prefix, e, next) ==
  /\ msg' = [msg EXCEPT ![p] = [level |-> "error", prefix |-> prefix, exc |-> e]]
  /\ pc' = [pc EXCEPT ![p] = next]
  /\ err' = err

\* An exception no except clause handles: it ends the script run.
Uncaught(p, e) ==
  /\ err' = [err EXCEPT ![p] = [exc |-> e, at |-> pc[p]]]
  /\ pc' = [pc EXCEPT ![p] = "idle"]
  /\ msg' = msg

\* A faulty variant: load_data without its try statement.
LoadDataExceptPropagates(p, e) ==
  /\ Uncaught(p, e)
  /\ kind' = [kind EXCEPT ![p] = 0]
  /\ UNCHANGED old

\* load_data: except Exception as e: st.error(f"Error loading data: ...")
LoadDataExcept(p, e) ==
  /\ Caught(p, "Error loading data", e, "main")
  /\ kind' = [kind EXCEPT ![p] = 0]
  /\ UNCHANGED old

\* show_data_management_page: except Exception as e: st.error(...)
AddColumnExcept(p, e) == Caught(p, "Error adding column", e, "view")

\* The to_sql calls other sessions have open on table t, each with the table
\* it found and the table it is writing.
OpenWrites(p, t) ==
  {[old |-> old[q].was, new |-> StoredTable(data[q])] :
     q \in {x \in Sessions \ {p} : pc[x] \in ToSqlPcs /\ Target(x) = t}}

\* A read of table t: SELECT * FROM t sees the table as it is committed.
Observe(p, t) ==
  obs' = [obs EXCEPT ![p] =
            IF OpenWrites(p, t) = {} THEN None
            ELSE [table |-> t, saw |-> db[t], writes |-> OpenWrites(p, t)]]

\* ---------------------------------------------------------- the script
\* The script starts: app = CostManagementApp() builds a new object.
Start(p) ==
  /\ pc[p] = "idle"
  /\ runs < MaxRuns
  /\ runs' = runs + 1
  /\ pc' = [pc EXCEPT ![p] = "init_db"]
  /\ i' = [i EXCEPT ![p] = 1]
  /\ data' = [data EXCEPT ![p] = None]
  /\ columns' = [columns EXCEPT ![p] = None]
  /\ args' = [args EXCEPT ![p] = None]
  /\ msg' = [msg EXCEPT ![p] = None]
  /\ err' = [err EXCEPT ![p] = None]
  /\ top_items' = [top_items EXCEPT ![p] = None]
  /\ old' = [old EXCEPT ![p] = None]
  /\ obs' = [obs EXCEPT ![p] = None]
  /\ UNCHANGED <<db, clicks, kind>>

\* init_db: one CREATE TABLE IF NOT EXISTS per step, then load_data.
InitDbStep(p) ==
  /\ pc[p] = "init_db"
  /\ db' = CreateTableIfNotExists(db, InitOrder[i[p]])
  /\ IF i[p] < Len(InitOrder)
     THEN /\ i' = [i EXCEPT ![p] = i[p] + 1]
          /\ UNCHANGED <<pc, kind>>
     ELSE /\ i' = [i EXCEPT ![p] = 0]
          /\ pc' = [pc EXCEPT ![p] = "read_excel"]
          /\ kind' = [kind EXCEPT ![p] = 1]
  /\ UNCHANGED <<runs, clicks, data, columns, args, msg, err, top_items,
                 old, obs>>

\* load_data: pd.read_excel of the next file fails (the file is missing or
\* unreadable).
ReadExcelFails(p) ==
  /\ pc[p] = "read_excel"
  /\ LoadDataExcept(p, "FileNotFoundError")
  /\ UNCHANGED <<db, runs, clicks, i, data, columns, args, top_items, obs>>

\* load_data: pd.read_excel of the next file and its clean-up, then the
\* first statement of process_and_store_<kind>_data: to_sql's test of
\* whether the table exists.
ReadExcel(p) ==
  /\ pc[p] = "read_excel"
  /\ \E file \in FilesOfKind(Kinds[kind[p]]) :
       data' = [data EXCEPT ![p] = Prepare(Kinds[kind[p]], file)]
  /\ old' = [old EXCEPT ![p] = [table |-> Target(p), was |-> db[Target(p)]]]
  /\ pc' = [pc EXCEPT ![p] =
              IF db[Target(p)] # Absent THEN "to_sql_drop" ELSE "to_sql_create"]
  /\ UNCHANGED <<db, runs, clicks, i, kind, columns, args, msg, err,
                 top_items, obs>>

\* to_sql(if_exists='replace'): DROP TABLE t, committed at once.
ToSqlDrop(p) ==
  /\ pc[p] = "to_sql_drop"
  /\ IF db[Target(p)] = Absent
     THEN LoadDataExcept(p, "no such table") /\ UNCHANGED db
     ELSE /\ db' = [db EXCEPT ![Target(p)] = Absent]
          /\ pc' = [pc EXCEPT ![p] = "to_sql_create"]
          /\ UNCHANGED <<kind, msg, err, old>>
  /\ UNCHANGED <<runs, clicks, i, data, columns, args, top_items, obs>>

\* to_sql: CREATE TABLE t (<the frame's columns>), committed at once.
ToSqlCreate(p) ==
  /\ pc[p] = "to_sql_create"
  /\ IF db[Target(p)] # Absent
     THEN LoadDataExcept(p, "table already exists") /\ UNCHANGED db
     ELSE /\ db' = [db EXCEPT ![Target(p)] = CreatedTable(data[p])]
          /\ pc' = [pc EXCEPT ![p] = "to_sql_insert"]
          /\ UNCHANGED <<kind, msg, err, old>>
  /\ UNCHANGED <<runs, clicks, i, data, columns, args, top_items, obs>>

\* to_sql: INSERT of every row of the frame in one transaction; then the
\* next file, or the end of load_data.
ToSqlInsert(p) ==
  /\ pc[p] = "to_sql_insert"
  /\ IF db[Target(p)] = Absent
     THEN LoadDataExcept(p, "no such table") /\ UNCHANGED db
     ELSE IF ~CanInsert(db[Target(p)], data[p])
     THEN LoadDataExcept(p, "table has no such column") /\ UNCHANGED db
     ELSE /\ db' = [db EXCEPT ![Target(p)] = InsertRows(db[Target(p)], data[p])]
          /\ IF kind[p] < Len(Kinds)
             THEN /\ kind' = [kind EXCEPT ![p] = kind[p] + 1]
                  /\ pc' = [pc EXCEPT ![p] = "read_excel"]
             ELSE /\ kind' = [kind EXCEPT ![p] = 0]
                  /\ pc' = [pc EXCEPT ![p] = "main"]
          /\ UNCHANGED <<msg, err, old>>
  /\ UNCHANGED <<runs, clicks, i, data, columns, args, top_items, obs>>

\* main begins: load_data is over, and nothing reads its frames again.
LoadDataOver(p) ==
  /\ data' = [data EXCEPT ![p] = None]
  /\ old' = [old EXCEPT ![p] = None]

\* main, page "Overview": show_overview_page reads the receipts, takes the
\* columns of the KPIs and the trend, and ranks the items.
Overview(p) ==
  /\ pc[p] = "main"
  /\ Observe(p, "receipts")
  /\ IF db["receipts"] = Absent
     THEN Uncaught(p, "no such table") /\ UNCHANGED top_items
     ELSE IF ~(OverviewColumns \subseteq Range(ReadFrame(db["receipts"]).cols))
     THEN Uncaught(p, "KeyError") /\ UNCHANGED top_items
     ELSE /\ \E t \in TopItems(ReadFrame(db["receipts"])) :
               top_items' = [top_items EXCEPT ![p] = t]
          /\ pc' = [pc EXCEPT ![p] = "idle"]
          /\ UNCHANGED <<msg, err>>
  /\ LoadDataOver(p)
  /\ UNCHANGED <<db, runs, clicks, i, kind, columns, args>>

\* main, pages "Cost Analysis", "Recipe Management" and "Reports": they read
\* and draw, and write nothing.
OtherPage(p) ==
  /\ pc[p] = "main"
  /\ pc' = [pc EXCEPT ![p] = "idle"]
  /\ LoadDataOver(p)
  /\ UNCHANGED <<db, runs, clicks, i, kind, columns, args, msg, err,
                 top_items, obs>>

\* What the widgets of "Add New Property" can hold when the button is
\* clicked; the text input is empty until something is typed.
ClickTables == {"receipts", "inventory"}
ColumnTexts == {"notes", ""}
ColumnTypes == {"TEXT"}

\* main, page "Data Management", "Add Column" clicked:
\* add_column_if_not_exists runs PRAGMA table_info(table).
ClickAddColumn(p) ==
  /\ pc[p] = "main"
  /\ clicks < MaxClicks
  /\ clicks' = clicks + 1
  /\ \E t \in ClickTables, c \in ColumnTexts, ty \in ColumnTypes :
       /\ args' = [args EXCEPT ![p] = [table |-> t, column |-> c, col_type |-> ty]]
       /\ columns' = [columns EXCEPT ![p] = TableInfo(db[t])]
  /\ pc' = [pc EXCEPT ![p] = "add_alter"]
  /\ LoadDataOver(p)
  /\ UNCHANGED <<db, runs, i, kind, msg, err, top_items, obs>>

\* add_column_if_not_exists: the test and the ALTER TABLE; then st.success,
\* or the except clause.
AddAlter(p) ==
  LET t == args[p].table
      out == AlterOutcome(db[t], columns[p], args[p].column, args[p].col_type)
  IN
  /\ pc[p] = "add_alter"
  /\ db' = [db EXCEPT ![t] = out.tab]
  /\ IF out.raised = ""
     THEN /\ msg' = [msg EXCEPT ![p] = [level |-> "success",
                                        prefix |-> "Added column", exc |-> ""]]
          /\ pc' = [pc EXCEPT ![p] = "view"]
          /\ err' = err
     ELSE AddColumnExcept(p, out.raised)
  /\ columns' = [columns EXCEPT ![p] = None]
  /\ args' = [args EXCEPT ![p] = None]
  /\ UNCHANGED <<runs, clicks, i, kind, data, top_items, old, obs>>

\* A write statement fails in the store itself (the database is locked past
\* the timeout, the disk is full): sqlite3 raises OperationalError, the
\* statement changes nothing, and the enclosing except clause takes over.
StatementFails(p) ==
  /\ pc[p] \in ToSqlPcs \cup AddColumnPcs
  /\ IF pc[p] \in ToSqlPcs
     THEN LoadDataExcept(p, "OperationalError") /\ UNCHANGED <<columns, args>>
     ELSE /\ AddColumnExcept(p, "OperationalError")
          /\ columns' = [columns EXCEPT ![p] = None]
          /\ args' = [args EXCEPT ![p] = None]
          /\ UNCHANGED <<kind, old>>
  /\ UNCHANGED <<db, runs, clicks, i, data, top_items, obs>>

\* Page "Data Management", View Data (after the button's work, if any): the
\* frame of the selected table.  No branch assigns df for "inventory", and
\* `if not df.empty` then reads an unassigned local.
View(p) ==
  /\ pc[p] \in {"main", "view"}
  /\ \E t \in Tables :
       IF t = "inventory"
       THEN Uncaught(p, "UnboundLocalError") /\ UNCHANGED obs
       ELSE /\ Observe(p, t)
            /\ IF db[t] = Absent
               THEN Uncaught(p, "no such table")
               ELSE /\ pc' = [pc EXCEPT ![p] = "idle"]
                    /\ UNCHANGED <<msg, err>>
  /\ LoadDataOver(p)
  /\ UNCHANGED <<db, runs, clicks, i, kind, columns, args, top_items>>

Step(p) ==
  \/ Start(p)
  \/ InitDbStep(p)
  \/ ReadExcelFails(p)
  \/ ReadExcel(p)
  \/ ToSqlDrop(p)
  \/ ToSqlCreate(p)
  \/ ToSqlInsert(p)
  \/ Overview(p)
  \/ OtherPage(p)
  \/ ClickAddColumn(p)
  \/ AddAlter(p)
  \/ View(p)

\* The sessions of the deployment side by side, on a store that does not
\* fail by itself: what fails here fails because of the other session.
Next == \E p \in Sessions : Step(p)
Spec == Init /\ [][Next]_vars

\* One session alone, on a store that can fail: nothing interleaves with its
\* calls.
NextSeq == Step("s1") \/ StatementFails("s1")
SpecSeq == Init /\ [][NextSeq]_vars

\* ------------------------------------------------------------ the claims
\* A session whose last process_and_store_<kind>_data call has just returned
\* without an error: data[p] is the frame it stored, old[p] the table it found.
Stored(p) ==
  /\ pc[p] \in {"read_excel", "main"}
  /\ data[p] # None
  /\ old[p] # None
  /\ msg[p] = None
  /\ db[old[p].table] # Absent

\* C1: a REPLACE ingestion followed by a read of the table returns exactly
\* the rows of the payload, same count and same per-field values, and none
\* of the rows the table held before.
C1_ReplaceRoundTrip ==
  \A p \in Sessions : Stored(p) => ReadFrame(db[old[p].table]) = data[p]

\* C2: a reader of a table that another connection is replacing sees either
\* the full old table or the full new table, never a missing table, an
\* empty table or a mix.
C2_ReplaceAtomic ==
  \A p \in Sessions :
    obs[p] # None => \A w \in obs[p].writes : obs[p].saw \in {w.old, w.new}

\* C3: add_column_if_not_exists called twice in sequence with the same
\* arguments on an existing table: the second call raises nothing and leaves
\* the schema the first call left.
C3_AddColumnIdempotent ==
  \A t \in Tables :
    db[t] # Absent =>
      \A c \in ColumnTexts, ty \in ColumnTypes :
        LET first == AddColumnIfNotExists(db[t], c, ty)
            second == AddColumnIfNotExists(first.tab, c, ty)
        IN second.raised = "" /\ second.tab = first.tab

\* C4: a column present in a table is still present after a later
\* process_and_store_<kind>_data call on that table.
C4_ColumnsNeverRemoved ==
  \A p \in Sessions :
    (Stored(p) /\ old[p].was # Absent) =>
      \A j \in DOMAIN old[p].was.cols :
        HasColumn(db[old[p].table], old[p].was.cols[j].name)

\* C5: an ingestion of a recipe payload without Cost Price fails with a
\* ValidationError, and the recipes table holds what it held before.
C5_MissingFieldRejected ==
  \A p \in Sessions :
    ( /\ pc[p] = "main"
      /\ data[p] # None
      /\ old[p] # None
      /\ old[p].table = "recipes"
      /\ ColIndex(data[p].cols, "Cost Price") = 0
      /\ (msg[p] = None \/ msg[p].exc # "OperationalError") )
    => /\ msg[p] # None
       /\ msg[p].exc = "ValidationError"
       /\ db["recipes"] = old[p].was

\* C6: each statement of init_db creates its table with the baseline columns
\* when the table is absent and changes nothing when it exists, no other
\* table is touched, and when init_db returns the four tables exist.
C6_InitDbCreatesOrKeeps ==
  [][\A p \in Sessions :
       (pc[p] = "init_db" /\ i'[p] # i[p]) =>
         /\ \A u \in Tables :
              db'[u] = IF u = InitOrder[i[p]] /\ db[u] = Absent
                       THEN Baseline(u) ELSE db[u]
         /\ pc'[p] # "init_db" => \A u \in Tables : db'[u] # Absent]_vars

\* init_db has run at the start of a second script run and left the rows of
\* the first run's receipts where they were.
C6_Witness ==
  \E p \in Sessions :
    /\ runs = 2
    /\ pc[p] = "read_excel"
    /\ kind[p] = 1
    /\ db["receipts"] # Absent
    /\ db["receipts"].rows # <<>>
    /\ db["inventory"] = Baseline("inventory")

\* C7: between the column check of add_column_if_not_exists and its ALTER
\* TABLE, no write of another connection to that table takes effect.
C7_AddColumnSerialized ==
  [][\A p \in Sessions :
       (pc[p] = "add_alter" /\ pc'[p] = "add_alter") =>
         db'[args[p].table] = db[args[p].table]]_vars

\* C8: no exception raised inside load_data (a file read, a statement of
\* process_and_store_<kind>_data) or inside add_column_if_not_exists called
\* from the Data Management page leaves the script run uncaught.
C8_FailuresRecovered ==
  \A p \in Sessions :
    err[p] # None => err[p].at \notin LoadDataPcs \cup AddColumnPcs

\* A statement of process_and_store_sales_data has failed, and the session
\* stands in main with the message of the except clause.
C8_Witness ==
  \E p \in Sessions :
    /\ pc[p] = "main"
    /\ err[p] = None
    /\ msg[p] # None
    /\ msg[p].level = "error"
    /\ msg[p].prefix = "Error loading data"
    /\ msg[p].exc = "OperationalError"
    /\ old[p] # None
    /\ old[p].table = "sales"

\* C9: the top items come in descending order of their summed value, and
\* items of equal value in ascending order of their keys.
C9_TopItemsTieOrder ==
  \A p \in Sessions :
    top_items[p] # None =>
      \A a, b \in DOMAIN top_items[p] :
        a < b =>
          \/ top_items[p][a].value > top_items[p][b].value
          \/ /\ top_items[p][a].value = top_items[p][b].value
             /\ KeyLess(top_items[p][a].key, top_items[p][b].key)

\* C10: View Data never tests a frame that was not assigned.
C10_ViewFrameAssigned ==
  \A p \in Sessions : err[p] # None => err[p].exc # "UnboundLocalError"

====
